---------------------------- MODULE Spec2Model ----------------------------
(***************************************************************************)
(* A model of anonymize_data.py: one batch run over the generated files of *)
(* the working directory (and a second run over the first run's output).   *)
(*                                                                         *)
(* Text is a sequence of tokens (a word, or one character of a number), so *)
(* that str(), repr() and the digest are conversions that can be compared. *)
(* A JSON value is a record [key, k, s, n, c]:                             *)
(*   key  the member name when the value sits in an object, "" otherwise   *)
(*   k    "str" | "int" | "float" | "null" | "dict" | "list"               *)
(*   s    the text of a string                                             *)
(*   n    the number of an int or of a (whole) float                       *)
(*   c    the members of an object or the items of an array, in order      *)
(***************************************************************************)
EXTENDS Integers, Sequences, FiniteSets, TLC

\* ------------------------------------------------------------ bounds
\* the most files the working directory holds
MaxFiles == 2
\* the most documents (JSONL lines and JSON files' texts) over all files
MaxDocs == 2

\* ------------------------------------------------------------ JSON values
JStr(key, s) == [key |-> key, k |-> "str", s |-> s, n |-> 0, c |-> <<>>]
JInt(key, n) == [key |-> key, k |-> "int", s |-> <<>>, n |-> n, c |-> <<>>]
JFloat(key, n) == [key |-> key, k |-> "float", s |-> <<>>, n |-> n, c |-> <<>>]
JNull(key) == [key |-> key, k |-> "null", s |-> <<>>, n |-> 0, c |-> <<>>]
JDict(key, c) == [key |-> key, k |-> "dict", s |-> <<>>, n |-> 0, c |-> c]
JList(key, c) == [key |-> key, k |-> "list", s |-> <<>>, n |-> 0, c |-> c]

\* the value of a member, without the name it is stored under
Value(m) == [m EXCEPT !.key = ""]

\* FIELDS_TO_ANONYMIZE, as the set main() makes of it
FIELDS_TO_ANONYMIZE ==
  {"PatientIDx", "PatientID", "TreatmentName", "FirstName", "LastName"}

\* ------------------------------------------------------------ str() and repr()
Digit(d) ==
  CASE d = 0 -> "0" [] d = 1 -> "1" [] d = 2 -> "2" [] d = 3 -> "3"
    [] d = 4 -> "4" [] d = 5 -> "5" [] d = 6 -> "6" [] d = 7 -> "7"
    [] d = 8 -> "8" [] d = 9 -> "9"

RECURSIVE Decimal(_)
\* str() of a non-negative int: its decimal digits
Decimal(n) == IF n < 10 THEN <<Digit(n)>> ELSE Decimal(n \div 10) \o <<Digit(n % 10)>>

RECURSIVE repr(_)
RECURSIVE reprItems(_, _)
\* repr() of a value: what str() of a dict or a list shows of its contents
repr(v) ==
  CASE v.k = "str" -> <<"'">> \o v.s \o <<"'">>
    [] v.k = "int" -> Decimal(v.n)
    [] v.k = "float" -> Decimal(v.n) \o <<".", "0">>
    [] v.k = "null" -> <<"None">>
    [] v.k = "dict" -> <<"{">> \o reprItems(v.c, TRUE) \o <<"}">>
    [] v.k = "list" -> <<"[">> \o reprItems(v.c, FALSE) \o <<"]">>

reprItems(items, keyed) ==
  IF items = <<>> THEN <<>>
  ELSE (IF keyed THEN <<"'", Head(items).key, "'", ":", " ">> ELSE <<>>)
       \o repr(Head(items))
       \o (IF Len(items) > 1 THEN <<",", " ">> ELSE <<>>)
       \o reprItems(Tail(items), keyed)

\* str(value): a string is its own text, anything else its repr
str(v) == IF v.k = "str" THEN v.s ELSE repr(v)

\* hashlib.sha256(text).hexdigest(): a text no other input gives
sha256(text) == <<"sha256">> \o text

\* hash_value(value)
hash_value(value) ==
  IF value.k # "null" THEN JStr("", sha256(str(value))) ELSE JNull("")


\* ------------------------------------------------------------ the mapping
\* The mapping is a Python dict: entries [hash, original] in insertion order,
\* no two with the same hash.
Has(mapping, hashed_value) == \E j \in 1..Len(mapping) : mapping[j].hash = hashed_value.s

\* Store as it would be without "if hashed_value not in mapping"
StoreOverwrite(mapping, hashed_value, value) ==
  IF Has(mapping, hashed_value)
  THEN [j \in 1..Len(mapping) |->
          IF mapping[j].hash = hashed_value.s
          THEN [hash |-> hashed_value.s, original |-> value] ELSE mapping[j]]
  ELSE Append(mapping, [hash |-> hashed_value.s, original |-> value])

\* "if hashed_value not in mapping: mapping[hashed_value] = value"
Store(mapping, hashed_value, value) ==
  IF Has(mapping, hashed_value) THEN mapping
  ELSE Append(mapping, [hash |-> hashed_value.s, original |-> value])

\* ------------------------------------------------------------ anonymize_dict
\* The loops below carry acc = [data, mapping]: the members or items put in
\* the output so far, and the mapping as it stands.
RECURSIVE anonymize_dict(_, _, _)
RECURSIVE anonymize_items(_, _, _)
RECURSIVE anonymize_list(_, _, _)

\* IsTarget as it would be if a value that is already a digest were left alone
IsTargetUnlessHashed(m, fields) ==
  m.key \in fields /\ m.k # "null" /\ ~(m.k = "str" /\ m.s # <<>> /\ Head(m.s) = "sha256")

\* IsTarget as it would be without "value is not None"
IsTargetAlsoNull(m, fields) == m.key \in fields

\* "key in fields and value is not None"
IsTarget(m, fields) == m.key \in fields /\ m.k # "null"

\* "anonymized[key] = ..." with the value and the mapping a call returned
Put(key, acc, r) ==
  [data |-> Append(acc.data, [r.data EXCEPT !.key = key]), mapping |-> r.mapping]

\* the first branch of the loop: hash the value, store it once, put the hash
Substitute(m, acc, hashed_value) ==
  Put(m.key, acc, [data |-> hashed_value,
                   mapping |-> Store(acc.mapping, hashed_value, Value(m))])

\* a dict or a list with the members or items a loop returned
WithItems(m, r) == [data |-> [m EXCEPT !.c = r.data], mapping |-> r.mapping]

\* one turn of "for key, value in data.items()"
anonymize_item(m, acc, fields) ==
  IF IsTarget(m, fields) THEN Substitute(m, acc, hash_value(Value(m)))
  ELSE IF m.k = "dict" THEN Put(m.key, acc, anonymize_dict(Value(m), acc.mapping, fields))
  ELSE IF m.k = "list"
  THEN Put(m.key, acc,
           WithItems(m, anonymize_list(m.c, [data |-> <<>>, mapping |-> acc.mapping], fields)))
  ELSE Put(m.key, acc, [data |-> m, mapping |-> acc.mapping])

\* "for key, value in data.items()", in order
anonymize_items(members, acc, fields) ==
  IF members = <<>> THEN acc
  ELSE anonymize_items(Tail(members), anonymize_item(Head(members), acc, fields), fields)

\* "[anonymize_dict(item, ...) if isinstance(item, dict) else item for item in
\* value]"
anonymize_list(items, acc, fields) ==
  IF items = <<>> THEN acc
  ELSE anonymize_list(
         Tail(items),
         IF Head(items).k = "dict"
         THEN Put("", acc, anonymize_dict(Head(items), acc.mapping, fields))
         ELSE Put("", acc, [data |-> Head(items), mapping |-> acc.mapping]),
         fields)

anonymize_dict(data, mapping, fields) ==
  IF data.k # "dict" THEN [data |-> data, mapping |-> mapping]
  ELSE WithItems(data, anonymize_items(data.c, [data |-> <<>>, mapping |-> mapping], fields))

\* ------------------------------------------------------------ files
\* A file name is <<prefix, stem, extension>>; a file's text is a sequence of
\* lines [t, doc]: a blank line, a line that is not JSON ("bad"), or a
\* document. The text of a .json file is one such line.
BlankLine == [t |-> "blank", doc |-> JNull("")]
BadLine == [t |-> "bad", doc |-> JNull("")]
DocLine(doc) == [t |-> "doc", doc |-> doc]

\* Path(file_path).suffix
suffix(file_path) == file_path[Len(file_path)]

\* "'systeminfo' in file_path"
HasSysteminfo(file_path) == \E j \in 1..Len(file_path) : file_path[j] = "systeminfo"

\* file_path + '.tmp'
temp_file(file_path) == file_path \o <<".tmp">>

\* glob.glob(prefix + '*' + ext) over the directory dir
glob(dir, prefix, ext) ==
  {name \in DOMAIN dir : Len(name) = 3 /\ name[1] = prefix /\ name[3] = ext}

\* the orders in which a directory listing may give the names of S
Orderings(S) ==
  {o \in [1..Cardinality(S) -> S] : \A a, b \in 1..Cardinality(S) : a # b => o[a] # o[b]}

\* open(path, 'w') ... write: the directory with path holding text
WriteFile(dir, path, text) ==
  [name \in DOMAIN dir \cup {path} |-> IF name = path THEN text ELSE dir[name]]

\* os.replace(src, dst)
Replace(dir, src, dst) ==
  [name \in (DOMAIN dir \cup {dst}) \ {src} |-> IF name = dst THEN dir[src] ELSE dir[name]]

\* ------------------------------------------------------------ process_jsonl_file
\* The loop over the lines carries acc = [raised, out, mapping, count]: whether
\* json.loads raised, the lines written to the temporary file, the mapping and
\* the count.
Written(acc, r) ==
  [raised |-> FALSE, out |-> Append(acc.out, DocLine(r.data)), mapping |-> r.mapping,
   count |-> acc.count + 1]

RECURSIVE jsonl_loop(_, _, _)
\* "for line in infile": a blank line is passed over; a line that is not JSON
\* raises and ends the loop
jsonl_loop(lines, acc, fields) ==
  IF lines = <<>> THEN acc
  ELSE IF Head(lines).t = "blank" THEN jsonl_loop(Tail(lines), acc, fields)
  ELSE IF Head(lines).t = "bad" THEN [acc EXCEPT !.raised = TRUE]
  ELSE jsonl_loop(Tail(lines),
                  Written(acc, anonymize_dict(Head(lines).doc, acc.mapping, fields)),
                  fields)

\* JsonlResult as it would be if os.replace ran whether or not a line raised
JsonlResultAlwaysReplaces(dir, file_path, r) ==
  [raised |-> r.raised,
   dir |-> Replace(WriteFile(dir, temp_file(file_path), r.out),
                   temp_file(file_path), file_path),
   mapping |-> r.mapping, count |-> r.count]

\* the end of process_jsonl_file: the temporary file holds what was written
\* and, unless a line raised, replaces the file
JsonlResult(dir, file_path, r) ==
  [raised |-> r.raised,
   dir |-> IF r.raised THEN WriteFile(dir, temp_file(file_path), r.out)
           ELSE Replace(WriteFile(dir, temp_file(file_path), r.out),
                        temp_file(file_path), file_path),
   mapping |-> r.mapping, count |-> r.count]

process_jsonl_file(dir, file_path, mapping, fields) ==
  JsonlResult(dir, file_path,
              jsonl_loop(dir[file_path],
                         [raised |-> FALSE, out |-> <<>>, mapping |-> mapping, count |-> 0],
                         fields))

\* ------------------------------------------------------------ process_json_file
\* json.load(f) raises unless the text is one JSON document
JsonLoads(text) == Len(text) = 1 /\ text[1].t = "doc"

\* the end of process_json_file: json.dump to the temporary file, os.replace
JsonResult(dir, file_path, r) ==
  [raised |-> FALSE, processed |-> TRUE,
   dir |-> Replace(WriteFile(dir, temp_file(file_path), <<DocLine(r.data)>>),
                   temp_file(file_path), file_path),
   mapping |-> r.mapping]

\* a list has its dict items anonymized, a dict is anonymized, anything else
\* returns False
json_data(dir, file_path, data, mapping, fields) ==
  IF data.k = "list"
  THEN JsonResult(dir, file_path,
         WithItems(data, anonymize_list(data.c, [data |-> <<>>, mapping |-> mapping], fields)))
  ELSE IF data.k = "dict"
  THEN JsonResult(dir, file_path, anonymize_dict(data, mapping, fields))
  ELSE [raised |-> FALSE, processed |-> FALSE, dir |-> dir, mapping |-> mapping]

process_json_file(dir, file_path, mapping, fields) ==
  IF ~JsonLoads(dir[file_path])
  THEN [raised |-> TRUE, processed |-> FALSE, dir |-> dir, mapping |-> mapping]
  ELSE json_data(dir, file_path, dir[file_path][1].doc, mapping, fields)

\* ------------------------------------------------------------ save_mapping
\* Python's == on the values a dict key can be: an int and a float of the same
\* number are one key
PyEq(a, b) ==
  IF a.k = "str" /\ b.k = "str" THEN a.s = b.s
  ELSE IF a.k \in {"int", "float"} /\ b.k \in {"int", "float"} THEN a.n = b.n
  ELSE FALSE

\* a dict or a list cannot be a dict key (TypeError: unhashable type)
Hashable(v) == v.k \notin {"dict", "list"}

\* d[original] = hash_val on a dict in insertion order: an equal key keeps its
\* place and its first form, and takes the new value
SetItem(d, original, hash_val) ==
  IF \E j \in 1..Len(d) : PyEq(d[j].original, original)
  THEN [j \in 1..Len(d) |->
          IF PyEq(d[j].original, original) THEN [d[j] EXCEPT !.hash = hash_val] ELSE d[j]]
  ELSE Append(d, [original |-> original, hash |-> hash_val])

RECURSIVE reverse_mapping(_)
\* {original: hash_val for hash_val, original in mapping.items()}
reverse_mapping(mapping) ==
  IF mapping = <<>> THEN <<>>
  ELSE SetItem(reverse_mapping(SubSeq(mapping, 1, Len(mapping) - 1)),
               mapping[Len(mapping)].original, mapping[Len(mapping)].hash)

\* the name json.dump writes for a key that is not a string
JsonKey(v) ==
  CASE v.k = "str" -> v.s
    [] v.k = "int" -> Decimal(v.n)
    [] v.k = "float" -> Decimal(v.n) \o <<".", "0">>

\* mapping_data as json.dump writes it
mapping_data(mapping) ==
  [hash_to_original |-> mapping,
   original_to_hash |->
     [j \in 1..Len(reverse_mapping(mapping)) |->
        [key |-> JsonKey(reverse_mapping(mapping)[j].original),
         hash |-> reverse_mapping(mapping)[j].hash]],
   total_mappings |-> Len(mapping)]

\* ------------------------------------------------------------ inputs
\* {"Patient": {"FirstName": "Alice", "Age": 5, "LastName": null}}
DocNested ==
  JDict("", <<JDict("Patient", <<JStr("FirstName", <<"Alice">>), JInt("Age", 5),
                                 JNull("LastName")>>)>>)
\* {"records": [{"PatientID": "1"}, {"PatientID": "1"}]}
DocRecords ==
  JDict("", <<JList("records", <<JDict("", <<JStr("PatientID", <<"1">>)>>),
                                 JDict("", <<JStr("PatientID", <<"1">>)>>)>>)>>)
\* {"PatientID": 1, "PatientIDx": 1.0}
DocNumbers == JDict("", <<JInt("PatientID", 1), JFloat("PatientIDx", 1)>>)
\* [{"FirstName": "Alice"}, [{"FirstName": "Alice"}]]
DocArray ==
  JList("", <<JDict("", <<JStr("FirstName", <<"Alice">>)>>),
              JList("", <<JDict("", <<JStr("FirstName", <<"Alice">>)>>)>>)>>)
\* 7
DocScalar == JInt("", 7)
\* {"TreatmentName": {"FirstName": "Alice"}}
DocComposite == JDict("", <<JDict("TreatmentName", <<JStr("FirstName", <<"Alice">>)>>)>>)

Docs == {DocNested, DocRecords, DocNumbers, DocArray, DocScalar, DocComposite}

\* the lines a .jsonl file is made of, and the texts of a .json file
JsonlLines == {BlankLine, BadLine} \cup {DocLine(d) : d \in Docs}
JsonTexts == {<<BadLine>>} \cup {<<DocLine(d)>> : d \in Docs}

Stems == {"1", "systeminfo"}
\* the names the three patterns of main() can match
Names ==
  {<<"data_", s, ".jsonl">> : s \in Stems}
    \cup {<<"failed_treatments_", s, ".json">> : s \in Stems}
    \cup {<<"failed_patients_", s, ".json">> : s \in Stems}

RECURSIVE LinesUpTo(_)
\* the texts of at most n lines
LinesUpTo(n) ==
  IF n = 0 THEN {<<>>}
  ELSE LinesUpTo(n - 1)
         \cup {Append(l, x) : l \in {m \in LinesUpTo(n - 1) : Len(m) = n - 1}, x \in JsonlLines}

Texts(name, budget) ==
  IF suffix(name) = ".jsonl" THEN LinesUpTo(budget)
  ELSE IF budget >= 1 THEN JsonTexts ELSE {}

RECURSIVE Directories(_, _)
\* the directories holding the files named in S, at most budget lines in all
Directories(S, budget) ==
  IF S = {} THEN {<<>>}
  ELSE LET name == CHOOSE name \in S : TRUE
       IN UNION {{(name :> text) @@ dir : dir \in Directories(S \ {name}, budget - Len(text))}
                 : text \in Texts(name, budget)}

FileSystems ==
  UNION {Directories(S, MaxDocs) : S \in {T \in SUBSET Names : Cardinality(T) <= MaxFiles}}

\* ------------------------------------------------------------ the run
VARIABLES
  fs,             \* the working directory: file name -> text
  pc,             \* "start" | "loop" | "done" | "aborted"
  all_files,      \* main's all_files
  i,              \* the place in all_files the loop is at
  mapping,        \* main's mapping
  total_records,  \* main's total_records
  mapping_file,   \* what anonymization_mapping.json holds: <<>> or <<mapping_data>>
  second,         \* this is the second run, over the first run's output
  original,       \* the directory before the first run
  input,          \* the directory before this run
  opened,         \* the files this run opened
  writes          \* the times this run wrote anonymization_mapping.json

vars ==
  <<fs, pc, all_files, i, mapping, total_records, mapping_file, second, original,
    input, opened, writes>>

Init ==
  /\ fs \in FileSystems
  /\ pc = "start"
  /\ all_files = <<>>
  /\ i = 1
  /\ mapping = <<>>
  /\ total_records = 0
  /\ mapping_file = <<>>
  /\ second = FALSE
  /\ original = fs
  /\ input = fs
  /\ opened = {}
  /\ writes = 0

\* main, up to the loop: the three globs, and the return when nothing matched
Discover ==
  /\ pc = "start"
  /\ \E data_files \in Orderings(glob(fs, "data_", ".jsonl")),
        failed_treatment_files \in Orderings(glob(fs, "failed_treatments_", ".json")),
        failed_patient_files \in Orderings(glob(fs, "failed_patients_", ".json")) :
        /\ all_files' = data_files \o failed_treatment_files \o failed_patient_files
        /\ pc' = IF all_files' = <<>> THEN "done" ELSE "loop"
  /\ i' = 1
  /\ UNCHANGED <<fs, mapping, total_records, mapping_file, second, original, input,
                 opened, writes>>

InLoop == pc = "loop" /\ i <= Len(all_files)
file_path == all_files[i]
file_ext == suffix(file_path)
fields_to_anonymize == FIELDS_TO_ANONYMIZE

\* the loop's turn for a .jsonl file whose lines all parse
ProcessJsonl ==
  /\ InLoop /\ file_ext = ".jsonl"
  /\ LET r == process_jsonl_file(fs, file_path, mapping, fields_to_anonymize)
     IN /\ ~r.raised
        /\ fs' = r.dir
        /\ mapping' = r.mapping
        /\ total_records' = total_records + r.count
  /\ opened' = opened \cup {file_path}
  /\ i' = i + 1
  /\ UNCHANGED <<pc, all_files, mapping_file, second, original, input, writes>>

\* the loop's turn for a .jsonl file with a line that is not JSON: json.loads
\* raises, nothing catches it, and the run ends
ProcessJsonlError ==
  /\ InLoop /\ file_ext = ".jsonl"
  /\ LET r == process_jsonl_file(fs, file_path, mapping, fields_to_anonymize)
     IN /\ r.raised
        /\ fs' = r.dir
        /\ mapping' = r.mapping
  /\ opened' = opened \cup {file_path}
  /\ pc' = "aborted"
  /\ UNCHANGED <<all_files, i, total_records, mapping_file, second, original, input, writes>>

\* the loop's turn for a .json file with systeminfo in its name
SkipSysteminfo ==
  /\ InLoop /\ file_ext = ".json" /\ HasSysteminfo(file_path)
  /\ i' = i + 1
  /\ UNCHANGED <<fs, pc, all_files, mapping, total_records, mapping_file, second,
                 original, input, opened, writes>>

\* the loop's turn for a .json file holding a list or a dict
ProcessJson ==
  /\ InLoop /\ file_ext = ".json" /\ ~HasSysteminfo(file_path)
  /\ LET r == process_json_file(fs, file_path, mapping, fields_to_anonymize)
     IN /\ ~r.raised /\ r.processed
        /\ fs' = r.dir
        /\ mapping' = r.mapping
  /\ opened' = opened \cup {file_path}
  /\ i' = i + 1
  /\ UNCHANGED <<pc, all_files, total_records, mapping_file, second, original, input, writes>>

\* the loop's turn for a .json file holding neither: "unexpected format"
SkipUnexpected ==
  /\ InLoop /\ file_ext = ".json" /\ ~HasSysteminfo(file_path)
  /\ LET r == process_json_file(fs, file_path, mapping, fields_to_anonymize)
     IN ~r.raised /\ ~r.processed
  /\ opened' = opened \cup {file_path}
  /\ i' = i + 1
  /\ UNCHANGED <<fs, pc, all_files, mapping, total_records, mapping_file, second,
                 original, input, writes>>

\* the loop's turn for a .json file that is not JSON: json.load raises
ProcessJsonError ==
  /\ InLoop /\ file_ext = ".json" /\ ~HasSysteminfo(file_path)
  /\ process_json_file(fs, file_path, mapping, fields_to_anonymize).raised
  /\ opened' = opened \cup {file_path}
  /\ pc' = "aborted"
  /\ UNCHANGED <<fs, all_files, i, mapping, total_records, mapping_file, second,
                 original, input, writes>>

\* AfterLoop as it would be if "if mapping:" stood inside the loop
AfterLoopOrInside == pc = "loop"

\* the loop is over
AfterLoop == pc = "loop" /\ i > Len(all_files)

\* "if mapping:": save_mapping writes the mapping file
SaveMapping ==
  /\ AfterLoop /\ mapping # <<>>
  /\ \A j \in 1..Len(mapping) : Hashable(mapping[j].original)
  /\ mapping_file' = <<mapping_data(mapping)>>
  /\ writes' = writes + 1
  /\ pc' = "done"
  /\ UNCHANGED <<fs, all_files, i, mapping, total_records, second, original, input, opened>>

\* save_mapping with an original that cannot be a key: the comprehension
\* raises before the file is opened
SaveMappingError ==
  /\ AfterLoop /\ mapping # <<>>
  /\ \E j \in 1..Len(mapping) : ~Hashable(mapping[j].original)
  /\ pc' = "aborted"
  /\ UNCHANGED <<fs, all_files, i, mapping, total_records, mapping_file, second,
                 original, input, opened, writes>>

\* "else": no fields were anonymized
NoMapping ==
  /\ AfterLoop /\ mapping = <<>>
  /\ pc' = "done"
  /\ UNCHANGED <<fs, all_files, i, mapping, total_records, mapping_file, second,
                 original, input, opened, writes>>

\* the script is run again in the directory the first run left
Rerun ==
  /\ pc = "done" /\ ~second
  /\ second' = TRUE
  /\ pc' = "start"
  /\ all_files' = <<>>
  /\ i' = 1
  /\ mapping' = <<>>
  /\ total_records' = 0
  /\ input' = fs
  /\ opened' = {}
  /\ writes' = 0
  /\ UNCHANGED <<fs, mapping_file, original>>

Next ==
  \/ Discover
  \/ ProcessJsonl
  \/ ProcessJsonlError
  \/ SkipSysteminfo
  \/ ProcessJson
  \/ SkipUnexpected
  \/ ProcessJsonError
  \/ SaveMapping
  \/ SaveMappingError
  \/ NoMapping
  \/ Rerun

Spec == Init /\ [][Next]_vars

\* ------------------------------------------------------------ positions
\* A position in a document is the path of child indices from its root.
Missing == [key |-> "", k |-> "missing", s |-> <<>>, n |-> 0, c |-> <<>>]

RECURSIVE NodeAt(_, _)
NodeAt(node, p) ==
  IF p = <<>> THEN node
  ELSE IF Head(p) \in 1..Len(node.c) THEN NodeAt(node.c[Head(p)], Tail(p))
  ELSE Missing

Under(prefix, paths) == {prefix \o p : p \in paths}

\* a member under a sensitive name with a value that is not null
Sensitive(m) ==
  m.key \in {"PatientIDx", "PatientID", "TreatmentName", "FirstName", "LastName"}
    /\ m.k # "null"

\* a member under a sensitive name with the value null
NullField(m) ==
  m.key \in {"PatientIDx", "PatientID", "TreatmentName", "FirstName", "LastName"}
    /\ m.k = "null"

RECURSIVE AllTargets(_)
\* the sensitive members of a document at any depth, through objects and
\* arrays alike (what lies inside a sensitive member's own value is part of
\* that value)
AllTargets(node) ==
  UNION {IF Sensitive(node.c[c]) THEN {<<c>>} ELSE Under(<<c>>, AllTargets(node.c[c]))
         : c \in 1..Len(node.c)}

RECURSIVE NullFields(_)
\* the null sensitive members of a document, at any depth
NullFields(node) ==
  UNION {IF NullField(node.c[c]) THEN {<<c>>}
         ELSE IF Sensitive(node.c[c]) THEN {}
         ELSE Under(<<c>>, NullFields(node.c[c]))
         : c \in 1..Len(node.c)}

RECURSIVE VisitedTargets(_)
\* the sensitive members the contract of the recursive anonymizer reaches from
\* an object: its own, those of its object members, and those of the objects
\* that are items of its array members
VisitedTargets(node) ==
  IF node.k # "dict" THEN {}
  ELSE UNION {IF Sensitive(node.c[c]) THEN {<<c>>}
              ELSE IF node.c[c].k = "dict" THEN Under(<<c>>, VisitedTargets(node.c[c]))
              ELSE IF node.c[c].k = "list"
              THEN UNION {Under(<<c, d>>, VisitedTargets(node.c[c].c[d]))
                          : d \in 1..Len(node.c[c].c)}
              ELSE {}
              : c \in 1..Len(node.c)}

\* the same from the document of a file: a .json file's top-level array has
\* its object items anonymized
FileTargets(name, doc) ==
  IF suffix(name) = ".json" /\ doc.k = "list"
  THEN UNION {Under(<<d>>, VisitedTargets(doc.c[d])) : d \in 1..Len(doc.c)}
  ELSE VisitedTargets(doc)

IsDoc(line) == line.t = "doc"
\* the documents of a text, in order (the output holds no blank lines)
DocLines(text) == SelectSeq(text, IsDoc)

\* the files this run has opened and is through with
DoneFiles == {all_files[j] : j \in 1..(i - 1)} \cap opened

\* the j-th document of a file before this run, and now
InDoc(name, j) == DocLines(input[name])[j].doc
OutDoc(name, j) == IF j <= Len(fs[name]) THEN fs[name][j].doc ELSE Missing
Documents(name) == 1..Len(DocLines(input[name]))

\* the hash that stands for a sensitive member
Digest(m) == JStr(m.key, sha256(str(Value(m))))

\* the member at p of the j-th document of the file is now its digest
Replaced(name, j, p) == NodeAt(OutDoc(name, j), p) = Digest(NodeAt(InDoc(name, j), p))

Entries(m) == {m[j] : j \in 1..Len(m)}

\* ------------------------------------------------------------ claims
\* C1: in every document handed to a file processor (a document line of a
\* .jsonl file, the document of a .json file), every sensitive member with a
\* value that is not null is replaced by the hash of that value, at any
\* depth: also in objects inside arrays inside arrays, and in the objects of
\* a top-level array of a .jsonl line.
C1_EveryTargetReplaced ==
  \A name \in DoneFiles : \A j \in Documents(name) :
    \A p \in AllTargets(InDoc(name, j)) : Replaced(name, j, p)

\* C2: the two halves save_mapping writes are inverses of each other:
\* hash_to_original[h] = v exactly when original_to_hash[v] = h, the two have
\* as many entries, and total_mappings is that number.
C2_HalvesAreInverses ==
  \A d \in Entries(mapping_file) :
    /\ Len(d.original_to_hash) = Len(d.hash_to_original)
    /\ d.total_mappings = Len(d.hash_to_original)
    /\ \A e \in Entries(d.hash_to_original) :
         \E r \in Entries(d.original_to_hash) :
           r.key = JsonKey(e.original) /\ r.hash = e.hash
    /\ \A r \in Entries(d.original_to_hash) :
         \E e \in Entries(d.hash_to_original) :
           r.key = JsonKey(e.original) /\ r.hash = e.hash

\* C3: a discovered file with "systeminfo" in its name is never opened,
\* whatever its extension, and keeps its content.
C3_SysteminfoNeverOpened ==
  \A j \in 1..Len(all_files) :
    HasSysteminfo(all_files[j]) =>
      all_files[j] \notin opened /\ fs[all_files[j]] = input[all_files[j]]

\* C4: at the end of a run, every occurrence of a value under a sensitive name,
\* in any file handed to a processor and at any position, is replaced by the
\* one digest of that value, and the mapping holds exactly one entry for the
\* value.
C4_OneDigestOneEntry ==
  pc = "done" =>
    \A name \in DoneFiles : \A j \in Documents(name) :
      \A p \in AllTargets(InDoc(name, j)) :
        /\ Replaced(name, j, p)
        /\ Cardinality({e \in Entries(mapping) :
                          e.original = Value(NodeAt(InDoc(name, j), p))}) = 1

\* C10: at the end of a run, for every sensitive value v that a hash h
\* replaced in a file, the mapping holds h, and holds v for it.
C10_MappingGivesOriginal ==
  pc = "done" =>
    \A name \in DoneFiles : \A j \in Documents(name) :
      \A p \in FileTargets(name, InDoc(name, j)) :
        Replaced(name, j, p) =>
          \E e \in Entries(mapping) :
            /\ e.hash = Digest(NodeAt(InDoc(name, j), p)).s
            /\ e.original = Value(NodeAt(InDoc(name, j), p))

\* the j-th document of a file before the first run
FirstDoc(name, j) == DocLines(original[name])[j].doc

\* C5: a second run over the first run's output replaces every sensitive
\* value hash(v) the first run wrote by hash(hash(v)), and its mapping records
\* hash(hash(v)) -> hash(v): the runs are not idempotent.
C5_SecondRunHashesAgain ==
  (second /\ pc = "done") =>
    \A name \in DoneFiles : \A j \in Documents(name) :
      \A p \in AllTargets(FirstDoc(name, j)) :
        LET first == Digest(NodeAt(FirstDoc(name, j), p))
        IN NodeAt(InDoc(name, j), p) = first =>
             /\ NodeAt(OutDoc(name, j), p) = JStr(first.key, sha256(first.s))
             /\ NodeAt(OutDoc(name, j), p) # first
             /\ \E e \in Entries(mapping) :
                  e.hash = sha256(first.s) /\ e.original = Value(first)

\* a second run has ended on a file in which the first run hashed a value
C5_Witness ==
  /\ second /\ pc = "done"
  /\ \E name \in DoneFiles : \E j \in Documents(name) :
       \E p \in AllTargets(FirstDoc(name, j)) :
         /\ NodeAt(InDoc(name, j), p) = Digest(NodeAt(FirstDoc(name, j), p))
         /\ NodeAt(OutDoc(name, j), p) # NodeAt(InDoc(name, j), p)

\* C6: a sensitive member whose value is null keeps its name and the value
\* null in the output, at any depth, and adds no entry to the mapping.
C6_NullKept ==
  /\ \A name \in DoneFiles : \A j \in Documents(name) :
       \A p \in NullFields(InDoc(name, j)) :
         NodeAt(OutDoc(name, j), p) = NodeAt(InDoc(name, j), p)
  /\ \A e \in Entries(mapping) : e.original.k # "null" /\ e.hash # <<>>

\* a file with a null sensitive member two levels down, beside a hashed one,
\* has been anonymized
C6_Witness ==
  \E name \in DoneFiles : \E j \in Documents(name) :
    /\ \E p \in NullFields(InDoc(name, j)) : Len(p) >= 2
    /\ \E p \in FileTargets(name, InDoc(name, j)) : Replaced(name, j, p)

\* the run ended on a text that did not parse, in the loop's turn for
\* all_files[i]
ParseAbort == pc = "aborted" /\ i <= Len(all_files)

\* C7: when parsing fails in the k-th file the run ends there: no later file
\* is opened, the k-th file and the later ones hold what they held, every file
\* before it that was not skipped holds its anonymized content, and the
\* mapping file is not written.
C7_AbortLeavesRest ==
  ParseAbort =>
    /\ opened \subseteq {all_files[j] : j \in 1..i}
    /\ \A j \in i..Len(all_files) : fs[all_files[j]] = input[all_files[j]]
    /\ \A name \in DoneFiles : \A j \in Documents(name) :
         \A p \in FileTargets(name, InDoc(name, j)) : Replaced(name, j, p)
    /\ writes = 0
    /\ mapping_file = <<>>

\* parsing failed in the second file, after a first file was anonymized
C7_Witness ==
  /\ ParseAbort /\ i = 2
  /\ \E j \in Documents(all_files[1]) :
       \E p \in FileTargets(all_files[1], InDoc(all_files[1], j)) :
         Replaced(all_files[1], j, p)

\* C8: a run that ends writes the mapping file at most once, after every
\* discovered file had its turn, and exactly when the mapping is not empty;
\* with no file discovered, or nothing hashed, it ends without writing it.
C8_SavedOnceAtEnd ==
  /\ writes <= 1
  /\ writes = 1 => (pc = "done" /\ i > Len(all_files) /\ all_files # <<>>)
  /\ pc = "done" => (writes = 1 <=> mapping # <<>>)
  /\ (writes = 1 /\ ~second) => mapping_file = <<mapping_data(mapping)>>
  /\ (writes = 0 /\ ~second) => mapping_file = <<>>

\* a run over two files has ended and has written the mapping file
C8_Witness == pc = "done" /\ writes = 1 /\ Len(all_files) = 2 /\ mapping # <<>>

\* C9: within a run the mapping only grows, and a hash that is in it keeps
\* the original stored first, also when a later value gives the same hash.
C9_FirstWriteWins ==
  [][second' = second =>
       \A j \in 1..Len(mapping) : j <= Len(mapping') /\ mapping'[j] = mapping[j]]_vars

\* the number 1 was hashed after the string "1", and the mapping still holds
\* the string
C9_Witness ==
  /\ \E e \in Entries(mapping) : e.hash = sha256(<<"1">>) /\ e.original = JStr("", <<"1">>)
  /\ \E name \in DoneFiles : \E j \in Documents(name) :
       \E p \in FileTargets(name, InDoc(name, j)) :
         Value(NodeAt(InDoc(name, j), p)) = JInt("", 1) /\ Replaced(name, j, p)

=============================================================================
